---- MODULE Spec2Model ----
(***************************************************************************)
(* Lending engine of the library API: the status of the physical copies   *)
(* (library.BookItem), the ledger of active loans (borrowing.BorrowedBook) *)
(* and the request handlers of BorrowedBookViewset and                     *)
(* BookItemViewSet.change_status that read and write them.                 *)
(*                                                                         *)
(* Every request handler runs in its own worker.  A handler is split       *)
(* where the code leaves the database between two statements: the          *)
(* serializer validation / get_object() read runs before the               *)
(* @transaction.atomic body, and the atomic body commits as one step.      *)
(* Dates are day numbers.                                                  *)
(***************************************************************************)
EXTENDS Integers, FiniteSets, Sequences, TLC

\* ---------------------------------------------------------------- bounds
MaxDay == 3
MaxLoans == 2
MaxExtends == 2

\* ------------------------------------------------------ program constants
MaxLoanDays == 180
MaxExtendDays == 30

STATUS_AVAILABLE == "A"
STATUS_BORROWED == "B"
STATUS_RESERVED == "R"
STATUS_LOST == "L"
STATUS_CHOICES == {STATUS_AVAILABLE, STATUS_BORROWED, STATUS_RESERVED, STATUS_LOST}

\* ------------------------------------------------------------ input sets
Copies == {"c1", "c2"}
Borrowers == {"b1", "b2"}
Reqs == {1, 2}
DueOffsets == {-1, 0, 1, 180, 181}
DaysInputs == {-1, 0, 1, 30, 31}
ConcDueOffsets == {0, 1}
ConcDaysInputs == {0, 30}
RaceDaysInputs == {1, 30}
ReadDueOffsets == {1, 2}
DailyFines == {0, 3, 10}
StatusInputs == STATUS_CHOICES \cup {"X"}
LoanIds == 1..MaxLoans
Users == {"anon", "member", "librarian", "admin"}

VARIABLES today, status, loans, nextId, nExt, req, resp, copies, members

vars == <<today, status, loans, nextId, nExt, req, resp, copies, members>>

\* the BookItem and Member rows that exist
catalog == <<copies, members>>

\* a worker with no request
IdleReq ==
    [op |-> "none", pc |-> "idle", copy |-> "-", borrower |-> "-", due |-> 0,
     loan |-> 0, days |-> 0, to |-> "-"]

\* what a read returns about Loans: is_overdue, days_overdue (the empty set
\* is None, {n} is the number n), a fine amount and a list of Loan ids
Body(over, days, fine, ids) ==
    [is_overdue |-> over, days_overdue |-> days, fine |-> fine, ids |-> ids]

NoBody == Body(FALSE, {}, 0, {})

\* the response of a handler: HTTP class, error kinds, the Loan returned
Response(op, res, errs, id) ==
    [op |-> op, res |-> res, errs |-> errs, loan |-> id, body |-> NoBody]

\* the response of a read
Reply(op, id, body) ==
    [op |-> op, res |-> "ok", errs |-> {}, loan |-> id, body |-> body]

\* no response leaves the server in this step
NoResponse == Response("none", "-", {}, 0)

\* ------------------------------------------------------------- BookItem
is_available(st) == st = STATUS_AVAILABLE

can_be_borrowed(st) == st \in {STATUS_AVAILABLE, STATUS_RESERVED}

\* the list of statuses without STATUS_LOST
valid_statuses_short == STATUS_CHOICES \ {STATUS_LOST}

valid_statuses == STATUS_CHOICES

\* BookItem.change_status on a loaded instance: UPDATE of the status column
change_status(st, c, to) == [st EXCEPT ![c] = to]

\* --------------------------------------------------------- BorrowedBook
LoansOf(ls, c) == {l \in ls : l.copy = c}

LoanById(ls, id) == {l \in ls : l.id = id}

\* a lookup that matches every pk up to the requested one
get_object_loose(ls, id) == {l \in ls : l.id <= id}

\* GenericAPIView.get_object on the BorrowedBook queryset: the rows with this pk
get_object(ls, id) == LoanById(ls, id)

\* the DELETE left out
delete_none(ls, id) == ls

\* Model.delete of a loaded BorrowedBook: DELETE ... WHERE id = pk
delete(ls, id) == ls \ LoanById(ls, id)

\* borrowed_date taken from the request's due date instead of the clock
BorrowedBook_dated(id, c, b, due, t) ==
    [id |-> id, copy |-> c, borrower |-> b, borrowedAt |-> due, dueAt |-> due]

\* the row BorrowedBook.objects.create inserts; borrowed_date is auto_now_add
BorrowedBook(id, c, b, due, t) ==
    [id |-> id, copy |-> c, borrower |-> b, borrowedAt |-> t, dueAt |-> due]

\* the table without the UNIQUE constraint
unique_book_item_off(ls, c) == TRUE

\* OneToOneField: UNIQUE constraint on borrowedbook.book_item_id
unique_book_item(ls, c) == LoansOf(ls, c) = {}

\* a CHECK constraint that also keeps due_date within the loan horizon
due_date_after_borrowed_date_horizon(due, borrowed) ==
    due >= borrowed /\ due <= borrowed + MaxLoanDays

\* the table without the CHECK constraint
due_date_after_borrowed_date_off(due, borrowed) == TRUE

\* CheckConstraint due_date >= borrowed_date
due_date_after_borrowed_date(due, borrowed) == due >= borrowed

\* BorrowedBook.extend_due_date: its ValueError guard and the new due_date
extend_due_date_raises(days) == days < 0

\* the extension always made by the default number of days
extend_due_date_default(due, days) == due + 7

extend_due_date(due, days) == due + days

\* due_date < date.today()
is_due_date_past(due, t) == due < t

is_overdue(due, t) == is_due_date_past(due, t)

\* the days from the due date to today when that is >= 0, else None
how_many_days_past_from_due_date(due, t) ==
    IF t - due >= 0 THEN {t - due} ELSE {}

\* the fine computed from the day difference without the overdue test
get_fine_amount_signed(due, t, daily_fine) == (t - due) * daily_fine

\* overdue_days * daily_fine when overdue_days is neither None nor 0, else 0
get_fine_amount(due, t, daily_fine) ==
    LET overdue_days == how_many_days_past_from_due_date(due, t) IN
      IF overdue_days # {} /\ overdue_days # {0}
      THEN (CHOOSE d \in overdue_days : TRUE) * daily_fine
      ELSE 0

\* the filter of the overdue list with <= instead of <
due_date__lt_today_loose(ls, t) == {l \in ls : l.dueAt <= t}

\* get_queryset().filter(due_date__lt=date.today())
due_date__lt_today(ls, t) == {l \in ls : l.dueAt < t}

\* BorrowedBookSerializer: the computed fields of one Loan
BorrowedBookSerializer(l, t) ==
    Body(is_overdue(l.dueAt, t), how_many_days_past_from_due_date(l.dueAt, t), 0, {l.id})

\* ------------------------------------- BorrowedBookCreateSerializer
\* UniqueValidator the ModelSerializer puts on the one-to-one field
UniqueValidator_book_item(ls, c) == LoansOf(ls, c) = {}

\* validate_book_item without the availability test
validate_book_item_off(st) == {}

validate_book_item(st) ==
    IF ~is_available(st) THEN {"CopyUnavailable"} ELSE {}

\* book_item field: its validators, then validate_book_item
book_item_errors(ls, st, c) ==
    IF ~UniqueValidator_book_item(ls, c) THEN {"AlreadyOnLoan"}
    ELSE validate_book_item(st[c])

\* MinValueValidator(date.today) of the model field
MinValueValidator_due_date(value, t) == value >= t

\* the horizon compared with >= instead of >
validate_due_date_short(value, t) ==
    IF value <= t THEN {"InvalidDueDate"}
    ELSE IF value >= t + MaxLoanDays THEN {"InvalidDueDate"}
    ELSE {}

validate_due_date(value, t) ==
    IF value <= t THEN {"InvalidDueDate"}
    ELSE IF value > t + MaxLoanDays THEN {"InvalidDueDate"}
    ELSE {}

\* due_date field: its validators, then validate_due_date
due_date_errors(value, t) ==
    IF ~MinValueValidator_due_date(value, t) THEN {"InvalidDueDate"}
    ELSE validate_due_date(value, t)

\* serializer.is_valid: the errors of all fields
is_valid(ls, st, c, d, t) == book_item_errors(ls, st, c) \cup due_date_errors(d, t)

\* PrimaryKeyRelatedField.to_internal_value of book_item and borrower
does_not_exist(cs, ms, c, b) ==
    (IF c \notin cs THEN {"CopyNotFound"} ELSE {}) \cup
    (IF b \notin ms THEN {"BorrowerNotFound"} ELSE {})

\* the foreign keys of a BorrowedBook row point at existing rows
foreign_keys(cs, ms, c, b) == c \in cs /\ b \in ms

\* on_delete=CASCADE of BorrowedBook.borrower: the rows left after the delete of a Member
cascade_borrower(ls, b) == {l \in ls : l.borrower # b}

\* on_delete=CASCADE of BorrowedBook.book_item: the rows left after the delete of a BookItem
cascade_book_item(ls, c) == {l \in ls : l.copy # c}

\* the lower bound of the day count compared with < instead of <=
extend_days_ok_zero(days) == ~(days < 0 \/ days > MaxExtendDays)

\* the view's check of the number of days
extend_days_ok(days) == ~(days <= 0 \/ days > MaxExtendDays)

\* ----------------------------------------------------------- permissions
\* request.user of the four kinds of caller
is_authenticated(u) == u # "anon"

is_staff(u) == u = "admin"

\* Librarian.objects.filter(user=request.user).exists()
is_librarian(u) == u = "librarian"

IsAuthenticated(u) == is_authenticated(u)

\* a permission that lets every authenticated user in
has_permission_authenticated(u) == is_authenticated(u)

\* IsAdminOrLibrarian.has_permission
has_permission(u) ==
    IF ~is_authenticated(u) THEN FALSE
    ELSE IF is_staff(u) THEN TRUE
    ELSE IF is_librarian(u) THEN TRUE
    ELSE FALSE

\* APIView.check_permissions with BorrowedBookViewset.permission_classes
check_permissions(u) == IsAuthenticated(u) /\ has_permission(u)

\* ------------------------------------------------------------------ Init
Init ==
    /\ today = 0
    /\ status = [c \in Copies |-> STATUS_AVAILABLE]
    /\ loans = {}
    /\ nextId = 1
    /\ nExt = 0
    /\ req = [r \in Reqs |-> IdleReq]
    /\ resp = NoResponse
    /\ copies = Copies
    /\ members = Borrowers

\* ------------------------------------------------- a request arrives
\* A request that has arrived has read and written nothing, so the workers
\* take new requests one at a time; their handlers interleave freely.
NoneNew == \A r \in Reqs : req[r].pc # "new"

\* checkouts that passed validation and have not committed yet
InFlightCheckouts == {r \in Reqs : req[r].op = "checkout" /\ req[r].pc = "validated"}

ReceiveCheckout(r, c, b, d) ==
    /\ req[r].pc = "idle"
    /\ NoneNew
    /\ nextId + Cardinality(InFlightCheckouts) <= MaxLoans
    /\ req' = [req EXCEPT ![r] = [IdleReq EXCEPT !.op = "checkout", !.pc = "new",
                                    !.copy = c, !.borrower = b, !.due = d]]
    /\ resp' = NoResponse
    /\ UNCHANGED <<today, status, loans, nextId, nExt>>
    /\ UNCHANGED catalog

ReceiveCheckin(r, id) ==
    /\ req[r].pc = "idle"
    /\ NoneNew
    /\ req' = [req EXCEPT ![r] = [IdleReq EXCEPT !.op = "checkin", !.pc = "new",
                                    !.loan = id]]
    /\ resp' = NoResponse
    /\ UNCHANGED <<today, status, loans, nextId, nExt>>
    /\ UNCHANGED catalog

ReceiveExtend(r, id, days) ==
    /\ req[r].pc = "idle"
    /\ NoneNew
    /\ nExt < MaxExtends
    /\ req' = [req EXCEPT ![r] = [IdleReq EXCEPT !.op = "extend", !.pc = "new",
                                    !.loan = id, !.days = days]]
    /\ resp' = NoResponse
    /\ UNCHANGED <<today, status, loans, nextId, nExt>>
    /\ UNCHANGED catalog

ReceiveSetStatus(r, c, to) ==
    /\ req[r].pc = "idle"
    /\ NoneNew
    /\ req' = [req EXCEPT ![r] = [IdleReq EXCEPT !.op = "setstatus", !.pc = "new",
                                    !.copy = c, !.to = to]]
    /\ resp' = NoResponse
    /\ UNCHANGED <<today, status, loans, nextId, nExt>>
    /\ UNCHANGED catalog

\* APIView.permission_denied: the request ends before its handler runs
permission_denied(op, u) ==
    /\ ~check_permissions(u)
    /\ resp' = Response(op, "denied",
                        IF is_authenticated(u) THEN {"PermissionDenied"}
                        ELSE {"NotAuthenticated"}, 0)
    /\ UNCHANGED <<today, status, loans, nextId, nExt, req>>
    /\ UNCHANGED catalog

\* ---------------------------------------------- checkout: POST /api/books/
\* CreateModelMixin.create up to serializer.is_valid(raise_exception=True)
create(r) ==
    /\ req[r].op = "checkout"
    /\ req[r].pc = "new"
    /\ LET missing == does_not_exist(copies, members, req[r].copy, req[r].borrower)
           errs == IF "CopyNotFound" \in missing
                   THEN missing \cup due_date_errors(req[r].due, today)
                   ELSE missing \cup is_valid(loans, status, req[r].copy, req[r].due, today) IN
         IF errs = {}
         THEN /\ req' = [req EXCEPT ![r].pc = "validated"]
              /\ resp' = NoResponse
         ELSE /\ req' = [req EXCEPT ![r] = IdleReq]
              /\ resp' = Response("checkout", "invalid", errs, 0)
    /\ UNCHANGED <<today, status, loans, nextId, nExt>>
    /\ UNCHANGED catalog

\* @transaction.atomic perform_create: BorrowedBookCreateSerializer.create
perform_create(r) ==
    /\ req[r].op = "checkout"
    /\ req[r].pc = "validated"
    /\ LET c == req[r].copy
           d == req[r].due IN
         IF ~unique_book_item(loans, c)
         THEN /\ resp' = Response("checkout", "error", {"UniqueViolation"}, 0)
              /\ UNCHANGED <<status, loans, nextId>>
         ELSE IF ~due_date_after_borrowed_date(d, today)
         THEN /\ resp' = Response("checkout", "error", {"CheckViolation"}, 0)
              /\ UNCHANGED <<status, loans, nextId>>
         ELSE IF ~foreign_keys(copies, members, c, req[r].borrower)
         THEN /\ resp' = Response("checkout", "error", {"ForeignKeyViolation"}, 0)
              /\ UNCHANGED <<status, loans, nextId>>
         ELSE /\ loans' = loans \cup {BorrowedBook(nextId, c, req[r].borrower, d, today)}
              /\ nextId' = nextId + 1
              /\ status' = change_status(status, c, STATUS_BORROWED)
              /\ resp' = Response("checkout", "ok", {}, nextId)
    /\ req' = [req EXCEPT ![r] = IdleReq]
    /\ UNCHANGED <<today, nExt>>
    /\ UNCHANGED catalog

\* ------------------------------------- checkin: DELETE /api/books/{id}/
\* DestroyModelMixin.destroy up to get_object()
destroy(r) ==
    /\ req[r].op = "checkin"
    /\ req[r].pc = "new"
    /\ IF get_object(loans, req[r].loan) = {}
       THEN /\ req' = [req EXCEPT ![r] = IdleReq]
            /\ resp' = Response("checkin", "notfound", {"NotFound"}, req[r].loan)
       ELSE /\ LET l == CHOOSE x \in get_object(loans, req[r].loan) : TRUE IN
                 req' = [req EXCEPT ![r].pc = "loaded", ![r].copy = l.copy]
            /\ resp' = NoResponse
    /\ UNCHANGED <<today, status, loans, nextId, nExt>>
    /\ UNCHANGED catalog

\* a checkin that makes only a Borrowed copy Available
perform_destroy_keeping(r) ==
    /\ req[r].op = "checkin"
    /\ req[r].pc = "loaded"
    /\ IF req[r].copy \notin copies
       THEN /\ resp' = Response("checkin", "error", {"DatabaseError"}, req[r].loan)
            /\ UNCHANGED <<loans, status>>
       ELSE /\ loans' = delete(loans, req[r].loan)
            /\ status' = IF status[req[r].copy] = STATUS_BORROWED
                         THEN change_status(status, req[r].copy, STATUS_AVAILABLE)
                         ELSE status
            /\ resp' = Response("checkin", "ok", {}, req[r].loan)
    /\ req' = [req EXCEPT ![r] = IdleReq]
    /\ UNCHANGED <<today, nextId, nExt>>
    /\ UNCHANGED catalog

\* @transaction.atomic perform_destroy
perform_destroy(r) ==
    /\ req[r].op = "checkin"
    /\ req[r].pc = "loaded"
    /\ IF req[r].copy \notin copies
       THEN /\ resp' = Response("checkin", "error", {"DatabaseError"}, req[r].loan)
            /\ UNCHANGED <<loans, status>>
       ELSE /\ loans' = delete(loans, req[r].loan)
            /\ status' = change_status(status, req[r].copy, STATUS_AVAILABLE)
            /\ resp' = Response("checkin", "ok", {}, req[r].loan)
    /\ req' = [req EXCEPT ![r] = IdleReq]
    /\ UNCHANGED <<today, nextId, nExt>>
    /\ UNCHANGED catalog

\* ------------------------------ extend: PATCH /api/books/{id}/extend/
\* BorrowedBookViewset.extend up to the call of extend_due_date
extend(r) ==
    /\ req[r].op = "extend"
    /\ req[r].pc = "new"
    /\ IF get_object(loans, req[r].loan) = {}
       THEN /\ req' = [req EXCEPT ![r] = IdleReq]
            /\ resp' = Response("extend", "notfound", {"NotFound"}, req[r].loan)
            /\ UNCHANGED nExt
       ELSE IF ~extend_days_ok(req[r].days)
       THEN /\ req' = [req EXCEPT ![r] = IdleReq]
            /\ resp' = Response("extend", "invalid", {"InvalidExtension"}, req[r].loan)
            /\ UNCHANGED nExt
       ELSE /\ LET l == CHOOSE x \in get_object(loans, req[r].loan) : TRUE IN
                 req' = [req EXCEPT ![r].pc = "loaded", ![r].due = l.dueAt]
            /\ nExt' = nExt + 1
            /\ resp' = NoResponse
    /\ UNCHANGED <<today, status, loans, nextId>>
    /\ UNCHANGED catalog

\* a save that answers with success when its UPDATE matched no row
extend_save_silent(r) ==
    /\ req[r].op = "extend"
    /\ req[r].pc = "loaded"
    /\ LET newDue == extend_due_date(req[r].due, req[r].days)
           found == LoanById(loans, req[r].loan) IN
         IF extend_due_date_raises(req[r].days)
         THEN /\ resp' = Response("extend", "error", {"ValueError"}, req[r].loan)
              /\ UNCHANGED loans
         ELSE IF found = {}
         THEN /\ resp' = Response("extend", "ok", {}, req[r].loan)
              /\ UNCHANGED loans
         ELSE LET l == CHOOSE x \in found : TRUE IN
              /\ loans' = (loans \ {l}) \cup {[l EXCEPT !.dueAt = newDue]}
              /\ resp' = Response("extend", "ok", {}, l.id)
    /\ req' = [req EXCEPT ![r] = IdleReq]
    /\ UNCHANGED <<today, status, nextId, nExt>>
    /\ UNCHANGED catalog

\* a save that also stamps borrowed_date, as auto_now would
extend_save_stamping(r) ==
    /\ req[r].op = "extend"
    /\ req[r].pc = "loaded"
    /\ LET newDue == extend_due_date(req[r].due, req[r].days)
           found == LoanById(loans, req[r].loan) IN
         IF extend_due_date_raises(req[r].days)
         THEN /\ resp' = Response("extend", "error", {"ValueError"}, req[r].loan)
              /\ UNCHANGED loans
         ELSE IF found = {}
         THEN /\ resp' = Response("extend", "error", {"DatabaseError"}, req[r].loan)
              /\ UNCHANGED loans
         ELSE LET l == CHOOSE x \in found : TRUE IN
              /\ loans' = (loans \ {l}) \cup
                             {[l EXCEPT !.dueAt = newDue, !.borrowedAt = today]}
              /\ resp' = Response("extend", "ok", {}, l.id)
    /\ req' = [req EXCEPT ![r] = IdleReq]
    /\ UNCHANGED <<today, status, nextId, nExt>>
    /\ UNCHANGED catalog

\* borrowing.extend_due_date(extend_days) and the response
extend_save(r) ==
    /\ req[r].op = "extend"
    /\ req[r].pc = "loaded"
    /\ LET newDue == extend_due_date(req[r].due, req[r].days)
           found == LoanById(loans, req[r].loan) IN
         IF extend_due_date_raises(req[r].days)
         THEN /\ resp' = Response("extend", "error", {"ValueError"}, req[r].loan)
              /\ UNCHANGED loans
         ELSE IF found = {}
         THEN /\ resp' = Response("extend", "error", {"DatabaseError"}, req[r].loan)
              /\ UNCHANGED loans
         ELSE LET l == CHOOSE x \in found : TRUE IN
              IF ~due_date_after_borrowed_date(newDue, l.borrowedAt)
              THEN /\ resp' = Response("extend", "error", {"CheckViolation"}, req[r].loan)
                   /\ UNCHANGED loans
              ELSE /\ loans' = (loans \ {l}) \cup {[l EXCEPT !.dueAt = newDue]}
                   /\ resp' = Response("extend", "ok", {}, l.id)
    /\ req' = [req EXCEPT ![r] = IdleReq]
    /\ UNCHANGED <<today, status, nextId, nExt>>
    /\ UNCHANGED catalog

\* ------------- manual status set: PATCH .../items/{id}/change_status/
\* a status set that also closes the Loan of a copy it makes Available or Lost
set_status_closing(r) ==
    /\ req[r].op = "setstatus"
    /\ req[r].pc = "new"
    /\ IF req[r].copy \notin copies
       THEN /\ resp' = Response("setstatus", "notfound", {"NotFound"}, 0)
            /\ UNCHANGED <<status, loans>>
       ELSE IF req[r].to \notin valid_statuses
       THEN /\ resp' = Response("setstatus", "invalid", {"InvalidState"}, 0)
            /\ UNCHANGED <<status, loans>>
       ELSE /\ status' = change_status(status, req[r].copy, req[r].to)
            /\ loans' = IF req[r].to \in {STATUS_AVAILABLE, STATUS_LOST}
                        THEN loans \ LoansOf(loans, req[r].copy)
                        ELSE loans
            /\ resp' = Response("setstatus", "ok", {}, 0)
    /\ req' = [req EXCEPT ![r] = IdleReq]
    /\ UNCHANGED <<today, nextId, nExt>>
    /\ UNCHANGED catalog

set_status(r) ==
    /\ req[r].op = "setstatus"
    /\ req[r].pc = "new"
    /\ IF req[r].copy \notin copies
       THEN /\ resp' = Response("setstatus", "notfound", {"NotFound"}, 0)
            /\ UNCHANGED status
       ELSE IF req[r].to \notin valid_statuses
       THEN /\ resp' = Response("setstatus", "invalid", {"InvalidState"}, 0)
            /\ UNCHANGED status
       ELSE /\ status' = change_status(status, req[r].copy, req[r].to)
            /\ resp' = Response("setstatus", "ok", {}, 0)
    /\ req' = [req EXCEPT ![r] = IdleReq]
    /\ UNCHANGED <<today, loans, nextId, nExt>>
    /\ UNCHANGED catalog

\* ----------------------------------------------------------------- reads
\* GET /api/books/{id}/: RetrieveModelMixin.retrieve
retrieve(id) ==
    /\ resp' = IF get_object(loans, id) = {}
               THEN Response("retrieve", "notfound", {"NotFound"}, id)
               ELSE Reply("retrieve", id,
                          BorrowedBookSerializer(CHOOSE x \in get_object(loans, id) : TRUE, today))
    /\ UNCHANGED <<today, status, loans, nextId, nExt, req>>
    /\ UNCHANGED catalog

\* GET /api/books/overdue/
overdue ==
    /\ resp' = Reply("overdue", 0,
                     Body(FALSE, {}, 0, {l.id : l \in due_date__lt_today(loans, today)}))
    /\ UNCHANGED <<today, status, loans, nextId, nExt, req>>
    /\ UNCHANGED catalog

\* a call of BorrowedBook.get_fine_amount(daily_fine) on a Loan
fine(id, daily_fine) ==
    /\ get_object(loans, id) # {}
    /\ LET l == CHOOSE x \in get_object(loans, id) : TRUE IN
         resp' = Reply("fine", id, Body(FALSE, {}, get_fine_amount(l.dueAt, today, daily_fine), {}))
    /\ UNCHANGED <<today, status, loans, nextId, nExt, req>>
    /\ UNCHANGED catalog

\* ------------------------------------------- deletes of Members and copies
\* DELETE /api/members/{id}/: get_object, then the atomic perform_destroy
\* deletes the user, and the Member and its BorrowedBook rows with it
destroy_member(b) ==
    /\ IF b \notin members
       THEN /\ resp' = Response("deletemember", "notfound", {"NotFound"}, 0)
            /\ UNCHANGED <<members, loans>>
       ELSE /\ members' = members \ {b}
            /\ loans' = cascade_borrower(loans, b)
            /\ resp' = Response("deletemember", "ok", {}, 0)
    /\ UNCHANGED <<today, status, nextId, nExt, req, copies>>

\* DELETE .../books/{book_pk}/items/{id}/: DestroyModelMixin.destroy of the
\* ModelViewSet deletes the BookItem and its BorrowedBook row with it
destroy_item(c) ==
    /\ IF c \notin copies
       THEN /\ resp' = Response("deleteitem", "notfound", {"NotFound"}, 0)
            /\ UNCHANGED <<copies, loans>>
       ELSE /\ copies' = copies \ {c}
            /\ loans' = cascade_book_item(loans, c)
            /\ resp' = Response("deleteitem", "ok", {}, 0)
    /\ UNCHANGED <<today, status, nextId, nExt, req, members>>

\* ---------------------------------------------------- date.today() moves on
Tick ==
    /\ today < MaxDay
    /\ today' = today + 1
    /\ resp' = NoResponse
    /\ UNCHANGED <<status, loans, nextId, nExt, req>>
    /\ UNCHANGED catalog

\* ------------------------------------------------------- specifications
\* a request of user u to BorrowedBookViewset that APIView.initial lets
\* through to its handler
CheckoutPermitted(u, RS, CS, BS, OS) ==
    /\ check_permissions(u)
    /\ \E r \in RS, c \in CS, b \in BS, o \in OS : ReceiveCheckout(r, c, b, today + o)

CheckinPermitted(u, RS) ==
    /\ check_permissions(u)
    /\ \E r \in RS, id \in LoanIds : ReceiveCheckin(r, id)

ExtendPermitted(u, RS, DS) ==
    /\ check_permissions(u)
    /\ \E r \in RS, id \in LoanIds, days \in DS : ReceiveExtend(r, id, days)

\* a request of user u: let through or denied
CheckoutBy(u, RS, CS, BS, OS) ==
    \/ CheckoutPermitted(u, RS, CS, BS, OS)
    \/ permission_denied("checkout", u)

CheckinBy(u, RS) ==
    \/ CheckinPermitted(u, RS)
    \/ permission_denied("checkin", u)

ExtendBy(u, RS, DS) ==
    \/ ExtendPermitted(u, RS, DS)
    \/ permission_denied("extend", u)

\* the requests of a librarian
Checkout(RS, CS, BS, OS) == CheckoutPermitted("librarian", RS, CS, BS, OS)
CheckoutValidate == \E r \in Reqs : create(r)
CheckoutCommit == \E r \in Reqs : perform_create(r)
Checkin(RS) == CheckinPermitted("librarian", RS)
CheckinLoad == \E r \in Reqs : destroy(r)
CheckinCommit == \E r \in Reqs : perform_destroy(r)
Extend(RS, DS) == ExtendPermitted("librarian", RS, DS)
ExtendLoad == \E r \in Reqs : extend(r)
ExtendSave == \E r \in Reqs : extend_save(r)
SetStatus(RS, CS) == \E r \in RS, c \in CS, to \in StatusInputs : ReceiveSetStatus(r, c, to)
SetStatusRun == \E r \in Reqs : set_status(r)
Retrieve == \E id \in LoanIds : retrieve(id)
Overdue == overdue
Fine == \E id \in LoanIds, daily_fine \in DailyFines : fine(id, daily_fine)
DeleteMember == \E b \in Borrowers : destroy_member(b)
DeleteItem == \E c \in Copies : destroy_item(c)

Handlers ==
    \/ CheckoutValidate
    \/ CheckoutCommit
    \/ CheckinLoad
    \/ CheckinCommit
    \/ ExtendLoad
    \/ ExtendSave

\* concurrent checkout, checkin and extend requests on two copies
NextLending ==
    \/ Checkout(Reqs, Copies, Borrowers, ConcDueOffsets)
    \/ Checkin(Reqs)
    \/ Extend(Reqs, ConcDaysInputs)
    \/ Handlers

\* the same with manual status changes of one of the copies
Next ==
    \/ Checkout(Reqs, Copies, {"b1"}, ConcDueOffsets)
    \/ Checkin(Reqs)
    \/ Extend(Reqs, ConcDaysInputs)
    \/ Handlers
    \/ SetStatus(Reqs, {"c1"})
    \/ SetStatusRun

\* one request at a time on one copy, every date and day count, the clock moving
NextDates ==
    \/ Checkout({1}, {"c1"}, Borrowers, DueOffsets)
    \/ Checkin({1})
    \/ Extend({1}, DaysInputs)
    \/ SetStatus({1}, {"c1"})
    \/ Handlers
    \/ SetStatusRun
    \/ Tick

\* concurrent extends of the Loans of one copy by different numbers of days
NextExtends ==
    \/ Checkout(Reqs, {"c1"}, {"b1"}, {1})
    \/ Checkin(Reqs)
    \/ Extend(Reqs, RaceDaysInputs)
    \/ Handlers

\* one request at a time on one copy, the clock moving, and the reads
NextReads ==
    \/ Checkout({1}, {"c1"}, {"b1"}, ReadDueOffsets)
    \/ Checkin({1})
    \/ Extend({1}, {1})
    \/ Handlers
    \/ Tick
    \/ Retrieve
    \/ Overdue
    \/ Fine

\* one request at a time while Members and copies are deleted
NextAdmin ==
    \/ Checkout({1}, Copies, Borrowers, {1})
    \/ Checkin({1})
    \/ Extend({1}, {1})
    \/ SetStatus({1}, {"c1"})
    \/ Handlers
    \/ SetStatusRun
    \/ DeleteMember
    \/ DeleteItem

\* the requests of every kind of caller on one copy
NextAuth ==
    \/ \E u \in Users : CheckoutBy(u, Reqs, {"c1"}, {"b1"}, {1})
    \/ \E u \in Users : CheckinBy(u, Reqs)
    \/ \E u \in Users : ExtendBy(u, Reqs, {1})
    \/ Handlers

Spec == Init /\ [][Next]_vars

SpecLending == Init /\ [][NextLending]_vars

SpecDates == Init /\ [][NextDates]_vars

SpecExtends == Init /\ [][NextExtends]_vars

SpecReads == Init /\ [][NextReads]_vars

SpecAdmin == Init /\ [][NextAdmin]_vars

SpecAuth == Init /\ [][NextAuth]_vars

TypeOK ==
    /\ today \in 0..MaxDay
    /\ status \in [Copies -> STATUS_CHOICES]
    /\ copies \subseteq Copies
    /\ members \subseteq Borrowers
    /\ \A l \in loans : l.copy \in copies /\ l.borrower \in members /\ l.id < nextId
    /\ \A r \in Reqs : req[r].pc \in {"idle", "new", "validated", "loaded"}

\* --------------------------------------------------- steps of a request
\* worker r takes a step
Step(r) == req'[r] # req[r]

\* worker r runs the first part of its handler
Starts(r, op) == req[r].op = op /\ req[r].pc = "new" /\ Step(r)

\* worker r runs the atomic block of a checkout that passed validation
Commits(r) == req[r].op = "checkout" /\ req[r].pc = "validated" /\ Step(r)

\* worker r runs the atomic block of a checkin that loaded its Loan
Closes(r) == req[r].op = "checkin" /\ req[r].pc = "loaded" /\ Step(r)

\* worker r runs the save of an extend that loaded its Loan
Saves(r) == req[r].op = "extend" /\ req[r].pc = "loaded" /\ Step(r)

\* the due dates the claims call valid on day t
DueDateInPolicy(due, t) == due > t /\ due <= t + 180

\* ================================================================ claims

\* C1: in every reachable state at most one active Loan references a Copy.
C1_OneLoanPerCopy ==
    \A l1 \in loans : \A l2 \in loans : l1.copy = l2.copy => l1 = l2

\* a checkout lost the race for a Copy and the Loan of the winner is there
C1_Witness ==
    /\ resp.op = "checkout"
    /\ resp.errs = {"UniqueViolation"}
    /\ loans # {}

\* C2: a checkout that passed validation on an Available Copy and then finds
\* the Copy taken by a concurrent checkout creates no Loan and ends with a
\* CopyUnavailable or AlreadyOnLoan failure.
C2_LoserGetsTypedFailure ==
    [][\A r \in Reqs :
         (Commits(r) /\ LoansOf(loans, req[r].copy) # {}) =>
             /\ loans' = loans
             /\ resp'.res = "invalid"
             /\ resp'.errs # {}
             /\ resp'.errs \subseteq {"CopyUnavailable", "AlreadyOnLoan"}]_vars

\* C3: under checkout, checkin and extend requests a Copy is Borrowed
\* exactly when an active Loan references it.
C3_BorrowedIffLoan ==
    \A c \in Copies : (status[c] = STATUS_BORROWED) <=> (LoansOf(loans, c) # {})

\* C4: a checkout of an Available Copy with no Loan and a valid due date
\* passes validation, and its atomic block creates exactly one new Loan with
\* the requested copy, borrower and due date and borrowedAt = today, and sets
\* the Copy to Borrowed.
C4_CheckoutCreatesLoan ==
    [][\A r \in Reqs :
         /\ (/\ Starts(r, "checkout")
             /\ is_available(status[req[r].copy])
             /\ LoansOf(loans, req[r].copy) = {}
             /\ DueDateInPolicy(req[r].due, today)) =>
                 /\ req'[r].pc = "validated"
                 /\ UNCHANGED <<loans, status>>
         /\ (/\ Commits(r)
             /\ LoansOf(loans, req[r].copy) = {}
             /\ req[r].due >= today) =>
                 /\ resp'.res = "ok"
                 /\ resp'.loan \notin {l.id : l \in loans}
                 /\ loans' = loans \cup
                      {[id |-> resp'.loan, copy |-> req[r].copy,
                        borrower |-> req[r].borrower,
                        borrowedAt |-> today, dueAt |-> req[r].due]}
                 /\ status' = [status EXCEPT ![req[r].copy] = "B"]]_vars

\* a checkout succeeded on a later day for the second borrower
C4_Witness ==
    /\ resp.op = "checkout"
    /\ resp.res = "ok"
    /\ today > 0
    /\ \E l \in loans : /\ l.id = resp.loan
                        /\ l.borrower = "b2"
                        /\ l.borrowedAt = today
                        /\ l.dueAt = today + 180
                        /\ status[l.copy] = "B"

\* C5: with no active Loan and a valid due date, a checkout is accepted
\* exactly when the Copy is Available or Reserved.
C5_ReservedEligible ==
    [][\A r \in Reqs :
         (/\ Starts(r, "checkout")
          /\ LoansOf(loans, req[r].copy) = {}
          /\ DueDateInPolicy(req[r].due, today)) =>
              ((req'[r].pc = "validated") <=> (status[req[r].copy] \in {"A", "R"}))]_vars

C7_InvalidDueDate ==
    [][\A r \in Reqs :
         Starts(r, "checkout") =>
             /\ (resp'.res = "invalid" /\ "InvalidDueDate" \in resp'.errs)
                  <=> (req[r].due <= today \/ req[r].due > today + 180)
             /\ (req'[r].pc # "validated") =>
                  (resp'.res = "invalid" /\ UNCHANGED <<loans, status, nextId>>)]_vars

\* a checkout was rejected for its date while a Loan due in 180 days exists
C7_Witness ==
    /\ resp.op = "checkout"
    /\ "InvalidDueDate" \in resp.errs
    /\ \E l \in loans : l.dueAt = l.borrowedAt + 180

\* C8: the atomic block of a checkin whose Loan is active removes exactly that
\* Loan, sets its Copy to Available and leaves every other Loan and Copy as
\* they were; the id of a Loan is never given to a later Loan.
C8_CheckinClosesLoan ==
    [][/\ \A r \in Reqs :
            (Closes(r) /\ LoanById(loans, req[r].loan) # {}) =>
                LET l == CHOOSE x \in LoanById(loans, req[r].loan) : TRUE IN
                  /\ resp'.res = "ok"
                  /\ loans' = loans \ {l}
                  /\ LoanById(loans', req[r].loan) = {}
                  /\ status' = [status EXCEPT ![l.copy] = "A"]
       /\ nextId' >= nextId
       /\ \A l \in loans' : l.id < nextId'
       /\ \A l \in loans' : LoanById(loans, l.id) = {} => l.id >= nextId]_vars

\* a checkin closed its Loan while another Loan stays open
C8_Witness ==
    /\ resp.op = "checkin"
    /\ resp.res = "ok"
    /\ LoanById(loans, resp.loan) = {}
    /\ \E l \in loans : status[l.copy] = "B"
    /\ \E c \in Copies : status[c] = "A" /\ LoansOf(loans, c) = {}

\* C9: a checkin whose loan id no active Loan has when the handler looks it up
\* fails with NotFound and changes neither the Loans nor any status.
C9_CheckinNotFound ==
    [][\A r \in Reqs :
         (Starts(r, "checkin") /\ LoanById(loans, req[r].loan) = {}) =>
             /\ resp'.res = "notfound"
             /\ resp'.errs = {"NotFound"}
             /\ req'[r].pc = "idle"
             /\ UNCHANGED <<loans, status>>]_vars

\* a checkin of a Loan that was checked in before got NotFound
C9_Witness ==
    /\ resp.op = "checkin"
    /\ resp.res = "notfound"
    /\ resp.loan < nextId
    /\ loans # {}

\* C10: an extend of an existing Loan with days <= 0 or days > 30 fails with
\* InvalidExtension, and no failed extend changes any Loan.
C10_InvalidExtension ==
    [][/\ \A r \in Reqs :
            (/\ Starts(r, "extend")
             /\ LoanById(loans, req[r].loan) # {}
             /\ (req[r].days <= 0 \/ req[r].days > 30)) =>
                 /\ resp'.res = "invalid"
                 /\ resp'.errs = {"InvalidExtension"}
                 /\ req'[r].pc = "idle"
                 /\ loans' = loans
       /\ (resp'.op = "extend" /\ resp'.res # "ok") => loans' = loans]_vars

\* an extend was refused for its day count and the Loan is still there
C10_Witness ==
    /\ resp.op = "extend"
    /\ resp.errs = {"InvalidExtension"}
    /\ LoanById(loans, resp.loan) # {}

\* C11: an extend that succeeds, requests running one at a time, was asked for
\* 1 to 30 days and sets the dueAt of its Loan to exactly the dueAt the Loan
\* had before plus that number of days, leaving every other Loan as it was.
C11_ExtendAddsDays ==
    [][\A r \in Reqs :
         (Saves(r) /\ resp'.res = "ok") =>
             /\ req[r].days >= 1
             /\ req[r].days <= 30
             /\ \E l \in LoanById(loans, req[r].loan) :
                    loans' = (loans \ {l}) \cup
                               {[l EXCEPT !.dueAt = l.dueAt + req[r].days]}]_vars

\* a Loan due one day after its checkout was extended by 30 days
C11_Witness ==
    /\ resp.op = "extend"
    /\ resp.res = "ok"
    /\ \E l \in loans : l.id = resp.loan /\ l.dueAt = l.borrowedAt + 31

\* C12: whatever the requests do, the dueAt of a Loan that stays active never
\* decreases.
C12_DueNeverDecreases ==
    [][\A l \in loans : \A m \in loans' : m.id = l.id => m.dueAt >= l.dueAt]_vars

\* C13: in every reachable state every active Loan has dueAt >= borrowedAt.
C13_DueNotBeforeBorrowed ==
    \A l \in loans : l.dueAt >= l.borrowedAt

\* a Loan was created on its due day, the clock having moved after validation
C13_Witness ==
    /\ resp.op = "checkout"
    /\ resp.res = "ok"
    /\ \E l \in loans : l.id = resp.loan /\ l.dueAt = l.borrowedAt /\ l.borrowedAt > 0

\* C14: the days_overdue a read of a Loan returns is absent when
\* today <= dueAt, the due day included, and is today - dueAt when
\* today > dueAt.
C14_DaysOverdue ==
    [][\A l \in loans :
         (resp'.op = "retrieve" /\ resp'.res = "ok" /\ resp'.loan = l.id) =>
             resp'.body.days_overdue =
                 IF today > l.dueAt THEN {today - l.dueAt} ELSE {}]_vars

\* C15: the fine of a Loan is (today - dueAt) * dailyRate when today > dueAt
\* and 0 when today <= dueAt.
C15_FineAmount ==
    [][\A l \in loans : \A rate \in DailyFines :
         (fine(l.id, rate) /\ resp'.op = "fine") =>
             resp'.body.fine =
                 IF today > l.dueAt THEN (today - l.dueAt) * rate ELSE 0]_vars

\* the fine of a Loan two days overdue at the rate 10 is 20
C15_Witness ==
    /\ resp.op = "fine"
    /\ resp.body.fine = 20
    /\ \E l \in loans : l.id = resp.loan /\ today = l.dueAt + 2

\* C16: is_overdue of a Loan read is true exactly when today > dueAt, and the
\* overdue list holds exactly the active Loans with today > dueAt.
C16_OverdueList ==
    [][/\ \A l \in loans :
            (resp'.op = "retrieve" /\ resp'.res = "ok" /\ resp'.loan = l.id) =>
                (resp'.body.is_overdue <=> today > l.dueAt)
       /\ resp'.op = "overdue" =>
            resp'.body.ids = {l.id : l \in {x \in loans : today > x.dueAt}}]_vars

\* the overdue list is empty on the due day of the one active Loan, an earlier
\* Loan having been closed
C16_Witness ==
    /\ resp.op = "overdue"
    /\ resp.body.ids = {}
    /\ nextId > 2
    /\ \E l \in loans : l.dueAt = today

\* C17: starting from a Copy that is Available or Reserved and has no Loan,
\* a checkout with a valid due date passes validation and creates its Loan,
\* and the checkin of that Loan that follows succeeds and leaves the Copy
\* Available with no Loan.
C17_RoundTrip ==
    [][\A r \in Reqs :
         /\ (/\ Starts(r, "checkout")
             /\ status[req[r].copy] \in {"A", "R"}
             /\ LoansOf(loans, req[r].copy) = {}
             /\ DueDateInPolicy(req[r].due, today)) => req'[r].pc = "validated"
         /\ (Commits(r) /\ req[r].due >= today) =>
                (resp'.res = "ok" /\ LoansOf(loans', req[r].copy) # {})
         /\ (Starts(r, "checkin") /\ LoanById(loans, req[r].loan) # {}) =>
                req'[r].pc = "loaded"
         /\ Closes(r) =>
                /\ resp'.res = "ok"
                /\ status'[req[r].copy] = "A"
                /\ LoansOf(loans', req[r].copy) = {}]_vars

\* C18: a manual status set to one of the four statuses succeeds from any
\* current status and stores exactly that status on its Copy; with any other
\* value it fails with InvalidState and no status changes.
C18_SetStatus ==
    [][\A r \in Reqs :
         Starts(r, "setstatus") =>
             IF req[r].to \in {"A", "B", "R", "L"}
             THEN /\ resp'.res = "ok"
                  /\ status' = [status EXCEPT ![req[r].copy] = req[r].to]
             ELSE /\ resp'.res = "invalid"
                  /\ resp'.errs = {"InvalidState"}
                  /\ status' = status]_vars

\* a status set with an unknown value was refused and the Copy is still Lost
C18_Witness ==
    /\ resp.op = "setstatus"
    /\ resp.errs = {"InvalidState"}
    /\ status["c1"] = "L"

\* C19: a manual status set, Lost on a Copy on loan included, creates, closes
\* and modifies no Loan.
C19_SetStatusKeepsLoans ==
    [][\A r \in Reqs :
         Starts(r, "setstatus") => (loans' = loans /\ nextId' = nextId)]_vars

\* a Copy on loan was set to Lost and its Loan is still there
C19_Witness ==
    /\ resp.op = "setstatus"
    /\ resp.res = "ok"
    /\ status["c1"] = "L"
    /\ LoansOf(loans, "c1") # {}

\* C20: an active Loan is removed only by a checkin of that Loan that
\* succeeds: neither the delete of a Member or of a Copy nor a manual status
\* set nor an extend removes it.
C20_OnlyCheckinCloses ==
    [][\A l \in loans :
         LoanById(loans', l.id) = {} =>
             \E r \in Reqs : /\ Closes(r)
                              /\ req[r].loan = l.id
                              /\ resp'.res = "ok"]_vars

\* C21: a Copy that an active Loan references is never deleted: no step
\* removes a Copy that has an active Loan.
C21_CopyOnLoanNotDeleted ==
    [][\A c \in copies : LoansOf(loans, c) # {} => c \in copies']_vars

\* C22: for one Copy successful checkouts and successful checkins alternate:
\* a checkout succeeds only on a Copy with no active Loan, and a checkin
\* reports success only for a Loan that is active when it commits, so that no
\* Loan is checked in successfully twice.
C22_Alternation ==
    [][\A r \in Reqs :
         /\ (Commits(r) /\ resp'.res = "ok") => LoansOf(loans, req[r].copy) = {}
         /\ (Closes(r) /\ resp'.res = "ok") => LoanById(loans, req[r].loan) # {}]_vars

\* C23: a checkout or checkin request of an authenticated user who is neither
\* staff nor a librarian is rejected and reaches no handler, and the Loans and
\* the status of every Copy are unchanged by it.
C23_MemberDenied ==
    [][\A u \in Users :
         (is_authenticated(u) /\ ~is_staff(u) /\ ~is_librarian(u)) =>
             /\ CheckoutBy(u, Reqs, Copies, Borrowers, DueOffsets) =>
                    /\ resp'.res = "denied"
                    /\ UNCHANGED <<loans, status, req>>
             /\ CheckinBy(u, Reqs) =>
                    /\ resp'.res = "denied"
                    /\ UNCHANGED <<loans, status, req>>]_vars

\* the checkin of an active Loan asked by a member was denied
C23_Witness ==
    /\ resp.op = "checkin"
    /\ resp.errs = {"PermissionDenied"}
    /\ loans # {}
    /\ \A c \in Copies : LoansOf(loans, c) # {} => status[c] = "B"

\* C24: a checkout commits only against a Copy whose status at commit time
\* is Available or Reserved, so that a status set by a concurrent request
\* after the checkout was validated is never overwritten with Borrowed.
C24_CommitOnEligibleCopy ==
    [][\A r \in Reqs :
         (Commits(r) /\ resp'.res = "ok") => status[req[r].copy] \in {"A", "R"}]_vars

\* C25: no step of an extend, successful or failed, changes the status of a
\* Copy, adds or removes a Loan, or changes the copy, borrower or borrowedAt
\* of a Loan.
C25_ExtendFrame ==
    [][\A r \in Reqs :
         (req[r].op = "extend" /\ Step(r)) =>
             /\ status' = status
             /\ {l.id : l \in loans'} = {l.id : l \in loans}
             /\ Cardinality(loans') = Cardinality(loans)
             /\ \A l \in loans : \E m \in loans' :
                    /\ m.id = l.id
                    /\ m.copy = l.copy
                    /\ m.borrower = l.borrower
                    /\ m.borrowedAt = l.borrowedAt]_vars

\* a Loan made on an earlier day was extended and its Copy is still Borrowed
C25_Witness ==
    /\ resp.op = "extend"
    /\ resp.res = "ok"
    /\ \E l \in loans : /\ l.id = resp.loan
                        /\ l.borrowedAt < today
                        /\ l.dueAt > l.borrowedAt + 1
                        /\ status[l.copy] = "B"

\* C26: an extend by 1 to 30 days of a Loan that is active is let through by
\* the view and its save succeeds whatever the new dueAt is, also when that
\* is more than 180 days after today.
C26_ExtendIgnoresHorizon ==
    [][\A r \in Reqs :
         /\ (/\ Starts(r, "extend")
             /\ LoanById(loans, req[r].loan) # {}
             /\ req[r].days >= 1
             /\ req[r].days <= 30) => req'[r].pc = "loaded"
         /\ (Saves(r) /\ LoanById(loans, req[r].loan) # {}) =>
                /\ resp'.res = "ok"
                /\ \E m \in LoanById(loans', req[r].loan) :
                       m.dueAt = req[r].due + req[r].days]_vars

\* extends moved the due date of a Loan more than 180 days past today
C26_Witness ==
    /\ resp.op = "extend"
    /\ resp.res = "ok"
    /\ \E l \in loans : l.id = resp.loan /\ l.dueAt > today + 180

\* C27: the atomic block of a checkin whose Loan a concurrent checkin has
\* closed since it was loaded writes no status; in particular it does not set
\* a Copy that was checked out again back to Available.
C27_StaleCheckinWritesNothing ==
    [][\A r \in Reqs :
         (Closes(r) /\ LoanById(loans, req[r].loan) = {}) => status' = status]_vars

\* C28: concurrent extends of one Loan lose no update: every extend that
\* reports success adds its days to the dueAt stored when it saves, so that
\* two successful extends by d1 and d2 days leave the original dueAt plus
\* d1 + d2.
C28_NoLostExtend ==
    [][\A r \in Reqs :
         (Saves(r) /\ resp'.res = "ok") =>
             \A l \in LoanById(loans, req[r].loan) :
                 \A m \in LoanById(loans', req[r].loan) :
                     m.dueAt = l.dueAt + req[r].days]_vars

\* C29: an extend never brings back a Loan that a checkin has closed: no
\* step makes a Loan exist under an id that was given out before and is not
\* active, and the save of an extend whose Loan is closed reports no success
\* and changes no Loan.
C29_ExtendNeverRevives ==
    [][/\ \A m \in loans' : LoanById(loans, m.id) = {} => m.id >= nextId
       /\ \A r \in Reqs :
            (Saves(r) /\ LoanById(loans, req[r].loan) = {}) =>
                /\ resp'.res # "ok"
                /\ loans' = loans]_vars

\* the save of an extend failed because a checkin had closed its Loan
C29_Witness ==
    /\ resp.op = "extend"
    /\ resp.errs = {"DatabaseError"}
    /\ LoanById(loans, resp.loan) = {}
    /\ resp.loan < nextId

\* C30: the atomic block of a checkin of an active Loan leaves the Copy
\* Available whatever its status was, Lost and Reserved included.
C30_CheckinMakesAvailable ==
    [][\A r \in Reqs :
         (Closes(r) /\ LoanById(loans, req[r].loan) # {}) =>
             /\ resp'.res = "ok"
             /\ status'[req[r].copy] = "A"
             /\ LoansOf(loans', req[r].copy) = {}]_vars

\* a checkin has loaded the Loan of a Copy that was marked Lost while on loan,
\* and its atomic block is the step that follows
C30_Witness ==
    \E r \in Reqs : /\ req[r].op = "checkin"
                     /\ req[r].pc = "loaded"
                     /\ status[req[r].copy] = "L"
                     /\ \E l \in LoanById(loans, req[r].loan) : l.copy = req[r].copy

====
